---- MODULE Spec2Model ----
(***************************************************************************)
(* Node liveness records (pkg/kv/kvserver/liveness/livenesspb/liveness.go):*)
(* the membership transition validator ValidateTransition, the recency     *)
(* order Liveness.Compare, the predicates IsLive and IsDead and the String *)
(* methods, as pure operators, with one specification per operation that   *)
(* draws the inputs from bounded sets and applies the operation, and one   *)
(* per collaborator the properties are about (the membership updater, the  *)
(* Compare-gated stores, the liveness snapshot).                           *)
(***************************************************************************)
EXTENDS Integers, FiniteSets, Sequences, TLC

VARIABLES
    pc,         \* "start" before a single call ran, "done" after; "run" otherwise
    old,        \* ValidateTransition: the old Liveness argument
    newStatus,  \* ValidateTransition: the newStatus argument
    ret,        \* ValidateTransition: what the call returned
    stored,     \* the membership updater: the record kept for the node
    history,    \* the membership updater: the statuses the node went through
    l,          \* Compare: the receiver
    o,          \* Compare: the argument
    cmp,        \* Compare: the integer returned
    now,        \* IsLive, IsDead: the reference time
    threshold,  \* IsDead: the threshold
    called,     \* IsLive, IsDead: the calls made so far
    isLive,     \* IsLive: what l.IsLive(now) returned
    isDead,     \* IsDead: what l.IsDead(now, threshold) returned
    isLiveO,    \* IsLive: what o.IsLive(now) returned
    store,      \* the gated store: the record it holds
    accepted,   \* the gated store: the records it accepted, in order
    pool,       \* the replicated stores: the competing records
    pending,    \* the replicated stores: the records not yet delivered to each store
    held,       \* the replicated stores: the record each store holds
    input,      \* the snapshot: the record of each known node
    todo,       \* the snapshot: the nodes each build has still to visit
    liveMap,    \* the snapshot: the IsLiveMap of each build
    str,        \* Liveness.String: what the call did
    mstr        \* MembershipStatus.String: what the call did

validateVars == <<old, newStatus, ret>>
updaterVars == <<stored, history>>
compareVars == <<l, o, cmp>>
liveVars == <<now, threshold, called, isLive, isDead, isLiveO>>
gateVars == <<store, accepted>>
convergeVars == <<pool, pending, held>>
mapVars == <<input, todo, liveMap>>
stringVars == <<str, mstr>>

vars ==
    <<pc, old, newStatus, ret, stored, history, l, o, cmp, liveVars, gateVars,
      convergeVars, mapVars, stringVars>>

(***************************************************************************)
(* Bounds of the model.                                                    *)
(***************************************************************************)
MaxNodeID == 1
MaxEpoch == 1
MaxWallTime == 1
MaxLogical == 1
MaxStatus == 3
MaxRequests == 4
MaxThreshold == 2
MaxAccepted == 3
MaxCompeting == 2

(***************************************************************************)
(* MembershipStatus: an int32 enumeration. The three named values, and     *)
(* every other integer the type admits (here up to MaxStatus).             *)
(***************************************************************************)
MembershipStatus_ACTIVE == 0
MembershipStatus_DECOMMISSIONING == 1
MembershipStatus_DECOMMISSIONED == 2

ValidStatuses ==
    {MembershipStatus_ACTIVE, MembershipStatus_DECOMMISSIONING, MembershipStatus_DECOMMISSIONED}

Statuses == 0..MaxStatus

\* Decommissioning is a shorthand to check if the membership status is DECOMMISSIONING.
Decommissioning(c) == c = MembershipStatus_DECOMMISSIONING

\* Decommissioned is a shorthand to check if the membership status is DECOMMISSIONED.
Decommissioned(c) == c = MembershipStatus_DECOMMISSIONED

\* Active is a shorthand to check if the membership status is ACTIVE.
Active(c) == c = MembershipStatus_ACTIVE

\* MembershipStatus.String panics on a value outside the enumeration.
StringPanics(c) == c \notin ValidStatuses

\* MembershipStatus.String, where it returns.
MembershipStatusString(c) ==
    CASE c = MembershipStatus_ACTIVE -> "active"
      [] c = MembershipStatus_DECOMMISSIONING -> "decommissioning"
      [] c = MembershipStatus_DECOMMISSIONED -> "decommissioned"
      [] OTHER -> "panic"

(***************************************************************************)
(* hlc timestamps: wall time, then logical component.                      *)
(***************************************************************************)
Timestamps == [WallTime : 0..MaxWallTime, Logical : 0..MaxLogical]

TimestampLess(t, s) ==
    \/ t.WallTime < s.WallTime
    \/ (t.WallTime = s.WallTime /\ t.Logical < s.Logical)

TimestampEqOrdering(t, s) ==
    t.WallTime = s.WallTime /\ t.Logical = s.Logical

(***************************************************************************)
(* Liveness records.                                                       *)
(***************************************************************************)
NodeIDs == 0..MaxNodeID
Epochs == 0..MaxEpoch

Liveness ==
    [NodeID : NodeIDs, Epoch : Epochs, Expiration : Timestamps,
     Draining : BOOLEAN, Membership : Statuses]

\* The records whose Membership is one of the three statuses of the enumeration.
ValidLiveness ==
    [NodeID : NodeIDs, Epoch : Epochs, Expiration : Timestamps,
     Draining : BOOLEAN, Membership : ValidStatuses]

\* Liveness{}: the record with every field zero.
EmptyLiveness ==
    [NodeID |-> 0, Epoch |-> 0, Expiration |-> [WallTime |-> 0, Logical |-> 0],
     Draining |-> FALSE, Membership |-> 0]

(***************************************************************************)
(* ValidateTransition. A call returns (changed, err) or panics (in         *)
(* old.Membership.String(), while formatting an error).                    *)
(***************************************************************************)
NoError == [kind |-> "nil", msg |-> "", nodeID |-> 0, found |-> ""]

AssertionFailed ==
    [kind |-> "AssertionFailed", msg |-> "invalid old liveness record; found to be empty",
     nodeID |-> 0, found |-> ""]

FailedPrecondition(msg, rec) ==
    [kind |-> "FailedPrecondition", msg |-> msg,
     nodeID |-> rec.NodeID, found |-> MembershipStatusString(rec.Membership)]

Returned(changed, err) == [panicked |-> FALSE, changed |-> changed, err |-> err]

Panicked == [panicked |-> TRUE, changed |-> FALSE, err |-> NoError]

NotCalled == [panicked |-> FALSE, changed |-> FALSE, err |-> NoError]

Rejected(msg, rec) ==
    IF StringPanics(rec.Membership)
    THEN Panicked
    ELSE Returned(FALSE, FailedPrecondition(msg, rec))

\* ValidateTransition without the check of line 132: a node may skip Decommissioning.
ValidateTransitionSkipLevel(rec, status) ==
    IF rec = EmptyLiveness
    THEN Returned(FALSE, AssertionFailed)
    ELSE IF rec.Membership = status
    THEN Returned(FALSE, NoError)
    ELSE IF Decommissioned(rec.Membership) /\ Decommissioning(status)
    THEN Returned(FALSE, NoError)
    ELSE IF Active(status) /\ ~Decommissioning(rec.Membership)
    THEN Rejected("can only recommission a decommissioning node", rec)
    ELSE Returned(TRUE, NoError)

\* ValidateTransition without the check of line 123: any node may be recommissioned.
ValidateTransitionRecommissionAny(rec, status) ==
    IF rec = EmptyLiveness
    THEN Returned(FALSE, AssertionFailed)
    ELSE IF rec.Membership = status
    THEN Returned(FALSE, NoError)
    ELSE IF Decommissioned(rec.Membership) /\ Decommissioning(status)
    THEN Returned(FALSE, NoError)
    ELSE IF Decommissioned(status) /\ ~Decommissioning(rec.Membership)
    THEN Rejected("can only fully decommission an already decommissioning node", rec)
    ELSE Returned(TRUE, NoError)

\* ValidateTransition without the same-status no-op of line 113.
ValidateTransitionNoSameStatus(rec, status) ==
    IF rec = EmptyLiveness
    THEN Returned(FALSE, AssertionFailed)
    ELSE IF Decommissioned(rec.Membership) /\ Decommissioning(status)
    THEN Returned(FALSE, NoError)
    ELSE IF Active(status) /\ ~Decommissioning(rec.Membership)
    THEN Rejected("can only recommission a decommissioning node", rec)
    ELSE IF Decommissioned(status) /\ ~Decommissioning(rec.Membership)
    THEN Rejected("can only fully decommission an already decommissioning node", rec)
    ELSE Returned(TRUE, NoError)

\* ValidateTransition without the no-op of line 118: decommissioning a decommissioned
\* node is accepted as a change.
ValidateTransitionNoAbsorb(rec, status) ==
    IF rec = EmptyLiveness
    THEN Returned(FALSE, AssertionFailed)
    ELSE IF rec.Membership = status
    THEN Returned(FALSE, NoError)
    ELSE IF Active(status) /\ ~Decommissioning(rec.Membership)
    THEN Rejected("can only recommission a decommissioning node", rec)
    ELSE IF Decommissioned(status) /\ ~Decommissioning(rec.Membership)
    THEN Rejected("can only fully decommission an already decommissioning node", rec)
    ELSE Returned(TRUE, NoError)

\* ValidateTransition with the emptiness check of line 109 after the same-status no-op.
ValidateTransitionEmptyLate(rec, status) ==
    IF rec.Membership = status
    THEN Returned(FALSE, NoError)
    ELSE IF rec = EmptyLiveness
    THEN Returned(FALSE, AssertionFailed)
    ELSE IF Decommissioned(rec.Membership) /\ Decommissioning(status)
    THEN Returned(FALSE, NoError)
    ELSE IF Active(status) /\ ~Decommissioning(rec.Membership)
    THEN Rejected("can only recommission a decommissioning node", rec)
    ELSE IF Decommissioned(status) /\ ~Decommissioning(rec.Membership)
    THEN Rejected("can only fully decommission an already decommissioning node", rec)
    ELSE Returned(TRUE, NoError)

\* ValidateTransition with the recommission check of line 123 placed before the
\* same-status no-op of line 113.
ValidateTransitionRejectFirst(rec, status) ==
    IF rec = EmptyLiveness
    THEN Returned(FALSE, AssertionFailed)
    ELSE IF Active(status) /\ ~Decommissioning(rec.Membership)
    THEN Rejected("can only recommission a decommissioning node", rec)
    ELSE IF rec.Membership = status
    THEN Returned(FALSE, NoError)
    ELSE IF Decommissioned(rec.Membership) /\ Decommissioning(status)
    THEN Returned(FALSE, NoError)
    ELSE IF Decommissioned(status) /\ ~Decommissioning(rec.Membership)
    THEN Rejected("can only fully decommission an already decommissioning node", rec)
    ELSE Returned(TRUE, NoError)

ValidateTransition(rec, status) ==
    IF rec = EmptyLiveness
    THEN Returned(FALSE, AssertionFailed)
    ELSE IF rec.Membership = status
    THEN Returned(FALSE, NoError)
    ELSE IF Decommissioned(rec.Membership) /\ Decommissioning(status)
    THEN Returned(FALSE, NoError)
    ELSE IF Active(status) /\ ~Decommissioning(rec.Membership)
    THEN Rejected("can only recommission a decommissioning node", rec)
    ELSE IF Decommissioned(status) /\ ~Decommissioning(rec.Membership)
    THEN Rejected("can only fully decommission an already decommissioning node", rec)
    ELSE Returned(TRUE, NoError)

(***************************************************************************)
(* Liveness.Compare.                                                       *)
(***************************************************************************)
\* Compare that never answers +1 on the Expiration tie-break.
CompareNoGreater(x, y) ==
    IF x.Epoch # y.Epoch
    THEN IF x.Epoch < y.Epoch THEN -1 ELSE 1
    ELSE IF ~TimestampEqOrdering(x.Expiration, y.Expiration)
    THEN -1
    ELSE 0

\* Compare that looks at Expiration before Epoch.
CompareExpirationFirst(x, y) ==
    IF ~TimestampEqOrdering(x.Expiration, y.Expiration)
    THEN IF TimestampLess(x.Expiration, y.Expiration) THEN -1 ELSE 1
    ELSE IF x.Epoch # y.Epoch
    THEN IF x.Epoch < y.Epoch THEN -1 ELSE 1
    ELSE 0

\* Compare that breaks an Epoch and Expiration tie on Draining.
CompareDraining(x, y) ==
    IF x.Epoch # y.Epoch
    THEN IF x.Epoch < y.Epoch THEN -1 ELSE 1
    ELSE IF ~TimestampEqOrdering(x.Expiration, y.Expiration)
    THEN IF TimestampLess(x.Expiration, y.Expiration) THEN -1 ELSE 1
    ELSE IF x.Draining # y.Draining
    THEN IF y.Draining THEN -1 ELSE 1
    ELSE 0

Compare(x, y) ==
    IF x.Epoch # y.Epoch
    THEN IF x.Epoch < y.Epoch THEN -1 ELSE 1
    ELSE IF ~TimestampEqOrdering(x.Expiration, y.Expiration)
    THEN IF TimestampLess(x.Expiration, y.Expiration) THEN -1 ELSE 1
    ELSE 0

(***************************************************************************)
(* Liveness.IsLive and Liveness.IsDead. Wall times and thresholds are in   *)
(* the same unit (nanoseconds).                                            *)
(***************************************************************************)
\* LegacyTimestamp.ToTimestamp: the same wall time and logical component.
ToTimestamp(t) == [WallTime |-> t.WallTime, Logical |-> t.Logical]

\* Timestamp.AddDuration: the duration is added to the wall time.
AddDuration(t, d) == [WallTime |-> t.WallTime + d, Logical |-> t.Logical]

\* IsLive that also holds at the expiration itself.
IsLiveInclusive(rec, t) == ~TimestampLess(ToTimestamp(rec.Expiration), t)

IsLive(rec, t) == TimestampLess(t, ToTimestamp(rec.Expiration))

\* IsDead that holds only strictly after the expiration plus the threshold.
IsDeadStrict(rec, t, d) ==
    TimestampLess(AddDuration(ToTimestamp(rec.Expiration), d), t)

\* IsDead that ignores the threshold.
IsDeadNoThreshold(rec, t, d) == ~TimestampLess(t, ToTimestamp(rec.Expiration))

\* IsDead that takes the threshold off the expiration.
IsDeadEarly(rec, t, d) ==
    ~TimestampLess(t, AddDuration(ToTimestamp(rec.Expiration), 0 - d))

IsDead(rec, t, d) ==
    LET expiration == AddDuration(ToTimestamp(rec.Expiration), d)
    IN  ~TimestampLess(t, expiration)

(***************************************************************************)
(* Liveness.String and MembershipStatus.String. A call returns a text (the *)
(* sequence of its parts) or panics.                                       *)
(***************************************************************************)
Rendered(text) == [panicked |-> FALSE, text |-> text]

RenderPanicked == [panicked |-> TRUE, text |-> <<>>]

\* MembershipStatus.String as a call: the text, or the panic of the default branch.
MembershipStatusStringCall(c) ==
    IF StringPanics(c) THEN RenderPanicked ELSE Rendered(<<MembershipStatusString(c)>>)

\* The text of Liveness.String: nid, epo, exp and the extra part.
LivenessText(rec, extra) ==
    <<"liveness", "nid", rec.NodeID, "epo", rec.Epoch, "exp", rec.Expiration.WallTime,
      rec.Expiration.Logical>> \o extra

LivenessString(rec) ==
    IF rec.Draining \/ Decommissioning(rec.Membership) \/ Decommissioned(rec.Membership)
    THEN IF StringPanics(rec.Membership)
         THEN RenderPanicked
         ELSE Rendered(LivenessText(rec,
                  <<"drain", rec.Draining, "membership",
                    MembershipStatusString(rec.Membership)>>))
    ELSE Rendered(LivenessText(rec, <<>>))

(***************************************************************************)
(* Specification SpecValidate: one call of ValidateTransition on any       *)
(* record and any status.                                                  *)
(***************************************************************************)
IdleUpdater == stored = EmptyLiveness /\ history = <<>>
IdleCompare == l = EmptyLiveness /\ o = EmptyLiveness /\ cmp = 0
IdleValidate == old = EmptyLiveness /\ newStatus = 0 /\ ret = NotCalled
IdleLive ==
    /\ now = [WallTime |-> 0, Logical |-> 0]
    /\ threshold = 0
    /\ called = {}
    /\ isLive = FALSE
    /\ isDead = FALSE
    /\ isLiveO = FALSE
IdleGate == store = EmptyLiveness /\ accepted = <<>>
IdleConverge == pool = {} /\ pending = <<>> /\ held = <<>>
IdleMap == input = <<>> /\ todo = <<>> /\ liveMap = <<>>
NotRendered == [panicked |-> FALSE, text |-> <<>>]
IdleString == str = NotRendered /\ mstr = NotRendered

InitValidate ==
    /\ pc = "start"
    /\ old \in Liveness
    /\ newStatus \in Statuses
    /\ ret = NotCalled
    /\ IdleUpdater
    /\ IdleCompare
    /\ IdleLive
    /\ IdleGate
    /\ IdleConverge
    /\ IdleMap
    /\ IdleString

CallValidateTransition ==
    /\ pc = "start"
    /\ ret' = ValidateTransition(old, newStatus)
    /\ pc' = "done"
    /\ UNCHANGED <<old, newStatus, stored, history, l, o, cmp, liveVars, gateVars, convergeVars, mapVars, stringVars>>

NextValidate == CallValidateTransition

SpecValidate == InitValidate /\ [][NextValidate]_vars

(***************************************************************************)
(* Specification SpecMembership: a membership updater for one node. The    *)
(* node starts Active; each request asks for a status of the enumeration,  *)
(* and the stored status is replaced only when ValidateTransition returns  *)
(* changed = true.                                                         *)
(***************************************************************************)
InitMembership ==
    /\ pc = "run"
    /\ stored \in {r \in Liveness : Active(r.Membership)}
    /\ history = <<MembershipStatus_ACTIVE>>
    /\ IdleValidate
    /\ IdleCompare
    /\ IdleLive
    /\ IdleGate
    /\ IdleConverge
    /\ IdleMap
    /\ IdleString

UpdateMembership(status) ==
    /\ Len(history) <= MaxRequests
    /\ old' = stored
    /\ newStatus' = status
    /\ ret' = ValidateTransition(stored, status)
    /\ stored' = IF ret'.changed THEN [stored EXCEPT !.Membership = status] ELSE stored
    /\ history' = Append(history, stored'.Membership)
    /\ UNCHANGED <<pc, l, o, cmp, liveVars, gateVars, convergeVars, mapVars, stringVars>>

NextMembership == \E status \in ValidStatuses : UpdateMembership(status)

SpecMembership == InitMembership /\ [][NextMembership]_vars

(***************************************************************************)
(* Specification SpecCompare: one call l.Compare(o) on any two valid       *)
(* records.                                                                *)
(***************************************************************************)
InitCompare ==
    /\ pc = "start"
    /\ l \in ValidLiveness
    /\ o \in ValidLiveness
    /\ cmp = 0
    /\ IdleValidate
    /\ IdleUpdater
    /\ IdleLive
    /\ IdleGate
    /\ IdleConverge
    /\ IdleMap
    /\ IdleString

CallCompare ==
    /\ pc = "start"
    /\ cmp' = Compare(l, o)
    /\ pc' = "done"
    /\ UNCHANGED <<old, newStatus, ret, stored, history, l, o, liveVars, gateVars, convergeVars, mapVars, stringVars>>

NextCompare == CallCompare

SpecCompare == InitCompare /\ [][NextCompare]_vars

(***************************************************************************)
(* Claims about ValidateTransition, under SpecValidate.                    *)
(***************************************************************************)
\* The call returned, on a non-empty old record whose membership and whose requested
\* status are both of the enumeration.
ValidCallDone ==
    /\ pc = "done"
    /\ old # EmptyLiveness
    /\ old.Membership \in ValidStatuses
    /\ newStatus \in ValidStatuses

Edges ==
    {<<MembershipStatus_ACTIVE, MembershipStatus_DECOMMISSIONING>>,
     <<MembershipStatus_DECOMMISSIONING, MembershipStatus_ACTIVE>>,
     <<MembershipStatus_DECOMMISSIONING, MembershipStatus_DECOMMISSIONED>>}

\* C1: on a non-empty old record and a newStatus among Active, Decommissioning,
\* Decommissioned, ValidateTransition returns (true, nil) exactly when
\* (old.Membership, newStatus) is one of the three edges Active->Decommissioning,
\* Decommissioning->Active, Decommissioning->Decommissioned; on every other pair it
\* returns changed = false.
C1_AcceptsExactlyTheEdges ==
    ValidCallDone =>
        /\ ~ret.panicked
        /\ (ret = Returned(TRUE, NoError)) <=> (<<old.Membership, newStatus>> \in Edges)
        /\ (<<old.Membership, newStatus>> \notin Edges) => ~ret.changed

C1_Witness ==
    /\ ValidCallDone
    /\ Decommissioning(old.Membership)
    /\ Decommissioned(newStatus)
    /\ ret = Returned(TRUE, NoError)

ErrorPairs ==
    {<<MembershipStatus_ACTIVE, MembershipStatus_DECOMMISSIONED>>,
     <<MembershipStatus_DECOMMISSIONED, MembershipStatus_ACTIVE>>}

\* C3: among non-empty old records and the three statuses, ValidateTransition returns
\* an error exactly for Active->Decommissioned and Decommissioned->Active; the error
\* is a failed-precondition, changed is false, and the error carries old.NodeID and
\* old's current membership status.
C3_ErrorsExactlyOnSkipAndRecommission ==
    ValidCallDone =>
        /\ ~ret.panicked
        /\ (ret.err # NoError) <=> (<<old.Membership, newStatus>> \in ErrorPairs)
        /\ (ret.err # NoError) =>
              /\ ret.err.kind = "FailedPrecondition"
              /\ ~ret.changed
              /\ ret.err.nodeID = old.NodeID
              /\ ret.err.found = MembershipStatusString(old.Membership)

C3_Witness ==
    /\ ValidCallDone
    /\ Decommissioned(old.Membership)
    /\ Active(newStatus)
    /\ old.NodeID = MaxNodeID
    /\ ret.err.kind = "FailedPrecondition"
    /\ ret.err.nodeID = MaxNodeID
    /\ ret.err.found = "decommissioned"

\* C4: for every valid non-empty record r, ValidateTransition(r, r.Membership)
\* returns (false, nil): requesting the current status is a no-op, never an error.
C4_SameStatusIsNoOp ==
    (ValidCallDone /\ newStatus = old.Membership) => ret = Returned(FALSE, NoError)

C4_Witness ==
    /\ ValidCallDone
    /\ newStatus = old.Membership
    /\ Decommissioned(old.Membership)
    /\ old.Draining
    /\ ret = Returned(FALSE, NoError)

\* C5: ValidateTransition(old, Decommissioning) never returns an error on a non-empty
\* old whose Membership is one of the three statuses: (true, nil) from Active, the
\* no-op (false, nil) from Decommissioning and from Decommissioned.
C5_DecommissioningNeverRejected ==
    (ValidCallDone /\ Decommissioning(newStatus)) =>
        ret = Returned(Active(old.Membership), NoError)

C5_Witness ==
    /\ ValidCallDone
    /\ Decommissioning(newStatus)
    /\ Decommissioned(old.Membership)
    /\ ret = Returned(FALSE, NoError)

\* C6, as claimed: on every non-empty old record whose Membership is Active or
\* Decommissioned, ValidateTransition(old, Active) is rejected with a
\* failed-precondition error.
C6_AsClaimed ==
    (ValidCallDone /\ Active(newStatus) /\ ~Decommissioning(old.Membership)) =>
        ret.err.kind = "FailedPrecondition"

\* C6, amended: ValidateTransition(old, Active) is rejected with a failed-precondition
\* error on every non-empty old record whose Membership is Decommissioned; on an
\* Active one it is the same-status no-op (false, nil); and it returns changed = true
\* only on a Decommissioning one.
C6_RecommissionOnlyFromDecommissioning ==
    (pc = "done" /\ old # EmptyLiveness /\ Active(newStatus)) =>
        /\ Decommissioned(old.Membership) =>
              /\ ret.err.kind = "FailedPrecondition"
              /\ ~ret.changed
        /\ Active(old.Membership) => ret = Returned(FALSE, NoError)
        /\ ret.changed => Decommissioning(old.Membership)

C6_Witness ==
    /\ ValidCallDone
    /\ Active(newStatus)
    /\ Decommissioned(old.Membership)
    /\ ret.err.kind = "FailedPrecondition"
    /\ ~ret.changed

\* C7: on the empty (all-zero) old record ValidateTransition reports an assertion
\* failure with changed = false for every newStatus, also when newStatus is the empty
\* record's own membership value; the failure is not the failed-precondition kind.
C7_EmptyIsAssertionFailure ==
    (pc = "done" /\ old = EmptyLiveness) =>
        /\ ret = Returned(FALSE, AssertionFailed)
        /\ ret.err.kind = "AssertionFailed"
        /\ ret.err.kind # "FailedPrecondition"

C7_Witness ==
    /\ pc = "done"
    /\ old = EmptyLiveness
    /\ newStatus = old.Membership
    /\ ret.err.kind = "AssertionFailed"
    /\ ~ret.changed

(***************************************************************************)
(* Claims about the membership updater, under SpecMembership.              *)
(***************************************************************************)
\* C2: in any sequence of membership update requests for a node that starts Active,
\* the status becomes Decommissioned only in a step whose previous status was
\* Decommissioning, and once it is Decommissioned it never changes again.
C2_DecommissionedViaDecommissioningAndTerminal ==
    /\ history[1] = MembershipStatus_ACTIVE
    /\ history[Len(history)] = stored.Membership
    /\ \A i \in 1..(Len(history) - 1) :
          /\ (Decommissioned(history[i + 1]) /\ ~Decommissioned(history[i]))
                => Decommissioning(history[i])
          /\ Decommissioned(history[i]) => Decommissioned(history[i + 1])

C2_Witness ==
    /\ Len(history) = 5
    /\ Decommissioning(history[2])
    /\ Decommissioned(history[3])
    /\ Decommissioned(history[4])
    /\ Decommissioned(stored.Membership)
    /\ Active(newStatus)
    /\ ret.err.kind = "FailedPrecondition"

(***************************************************************************)
(* Claims about Compare, under SpecCompare.                                *)
(***************************************************************************)
\* The valid records of the node of record r.
SameNode(r) == {c \in ValidLiveness : c.NodeID = r.NodeID}

\* C8: Compare is a total order over the records of one node: Compare(a,a) = 0;
\* Compare(a,b) = -Compare(b,a); Compare(a,b) <= 0 and Compare(b,c) <= 0 imply
\* Compare(a,c) <= 0; and the result is always one of -1, 0, +1.
C8_TotalOrder ==
    pc = "done" =>
        /\ cmp \in {-1, 0, 1}
        /\ (l = o) => cmp = 0
        /\ cmp = -Compare(o, l)
        /\ (l.NodeID = o.NodeID /\ cmp <= 0) =>
              \A c \in SameNode(o) : Compare(o, c) <= 0 => Compare(l, c) <= 0

C8_Witness ==
    /\ pc = "done"
    /\ cmp = -1
    /\ l.Epoch = o.Epoch
    /\ l.NodeID = o.NodeID
    /\ \E c \in SameNode(o) : c.Epoch > o.Epoch /\ Compare(o, c) = -1 /\ Compare(l, c) = -1

\* C9: epoch dominance: for records a, b with a.Epoch < b.Epoch, Compare(a,b) = -1
\* and Compare(b,a) = +1 whatever their Expiration values are.
C9_EpochDominance ==
    pc = "done" =>
        /\ l.Epoch < o.Epoch => cmp = -1
        /\ o.Epoch < l.Epoch => cmp = 1

C9_Witness ==
    /\ pc = "done"
    /\ l.Epoch < o.Epoch
    /\ TimestampLess(o.Expiration, l.Expiration)
    /\ cmp = -1

\* C10: at equal Epoch, Compare(a,b) is -1 when a.Expiration is strictly earlier than
\* b.Expiration (wall time, then logical component), +1 when strictly later, and 0
\* exactly when Epoch and Expiration are both equal; NodeID, Draining and Membership
\* play no part, so records differing only in those compare as 0.
C10_ExpirationTieBreak ==
    pc = "done" =>
        /\ l.Epoch = o.Epoch =>
              /\ TimestampLess(l.Expiration, o.Expiration) => cmp = -1
              /\ TimestampLess(o.Expiration, l.Expiration) => cmp = 1
        /\ (cmp = 0) <=> (l.Epoch = o.Epoch /\ l.Expiration = o.Expiration)

C10_Witness ==
    /\ pc = "done"
    /\ l.Epoch = o.Epoch
    /\ l.Expiration = o.Expiration
    /\ l.NodeID # o.NodeID
    /\ l.Draining # o.Draining
    /\ l.Membership # o.Membership
    /\ cmp = 0

(***************************************************************************)
(* Specification SpecLive: l.IsLive(now) and l.IsDead(now, threshold) on   *)
(* any valid record, any reference time and any threshold.                 *)
(***************************************************************************)
Nows == [WallTime : 0..(MaxWallTime + MaxThreshold), Logical : 0..MaxLogical]

Thresholds == (0 - MaxThreshold)..MaxThreshold

InitLive ==
    /\ pc = "run"
    /\ l \in ValidLiveness
    /\ o = EmptyLiveness
    /\ cmp = 0
    /\ now \in Nows
    /\ threshold \in Thresholds
    /\ called = {}
    /\ isLive = FALSE
    /\ isDead = FALSE
    /\ isLiveO = FALSE
    /\ IdleValidate
    /\ IdleUpdater
    /\ IdleGate
    /\ IdleConverge
    /\ IdleMap
    /\ IdleString

CallIsLive ==
    /\ "IsLive" \notin called
    /\ isLive' = IsLive(l, now)
    /\ called' = called \cup {"IsLive"}
    /\ UNCHANGED <<pc, validateVars, updaterVars, compareVars, now, threshold, isDead,
                   isLiveO, gateVars, convergeVars, mapVars, stringVars>>

CallIsDead ==
    /\ "IsDead" \notin called
    /\ isDead' = IsDead(l, now, threshold)
    /\ called' = called \cup {"IsDead"}
    /\ UNCHANGED <<pc, validateVars, updaterVars, compareVars, now, threshold, isLive,
                   isLiveO, gateVars, convergeVars, mapVars, stringVars>>

NextLive == CallIsLive \/ CallIsDead

SpecLive == InitLive /\ [][NextLive]_vars

(***************************************************************************)
(* Claims about IsLive and IsDead, under SpecLive.                         *)
(***************************************************************************)
\* t is strictly earlier than the time of wall time w and logical component g.
Earlier(t, w, g) == t.WallTime < w \/ (t.WallTime = w /\ t.Logical < g)

\* C13: IsLive(now) is true if and only if now is strictly earlier than the
\* record's Expiration; it is false at now = Expiration, whatever Epoch, Draining
\* and Membership are.
C13_IsLiveIffBeforeExpiration ==
    "IsLive" \in called =>
        /\ isLive <=> Earlier(now, l.Expiration.WallTime, l.Expiration.Logical)
        /\ (now = l.Expiration) => ~isLive

C13_Witness ==
    /\ "IsLive" \in called
    /\ isLive
    /\ Decommissioned(l.Membership)
    /\ l.Draining
    /\ now.WallTime = l.Expiration.WallTime
    /\ now.Logical < l.Expiration.Logical

\* C14: IsDead(now, threshold) is true if and only if now is not earlier than
\* Expiration + threshold: true at now = Expiration + threshold and later, false
\* before.
C14_IsDeadIffNotBeforeExpirationPlusThreshold ==
    "IsDead" \in called =>
        isDead <=> ~Earlier(now, l.Expiration.WallTime + threshold, l.Expiration.Logical)

C14_Witness ==
    /\ "IsDead" \in called
    /\ isDead
    /\ threshold > 0
    /\ now.WallTime = l.Expiration.WallTime + threshold
    /\ now.Logical = l.Expiration.Logical

\* now lies in the grace window [Expiration, Expiration + threshold).
InGraceWindow ==
    /\ ~Earlier(now, l.Expiration.WallTime, l.Expiration.Logical)
    /\ Earlier(now, l.Expiration.WallTime + threshold, l.Expiration.Logical)

\* C15: for a threshold T > 0, every now with Expiration <= now < Expiration + T has
\* IsLive(now) = false and IsDead(now, T) = false at the same time.
C15_GraceWindow ==
    (called = {"IsLive", "IsDead"} /\ threshold > 0 /\ InGraceWindow) =>
        (~isLive /\ ~isDead)

C15_Witness ==
    /\ called = {"IsLive", "IsDead"}
    /\ threshold > 0
    /\ InGraceWindow
    /\ now # l.Expiration
    /\ ~isLive
    /\ ~isDead

\* C19: for every threshold >= 0, IsLive(now) and IsDead(now, threshold) are never
\* both true; with threshold = 0, IsDead(now, 0) is the negation of IsLive(now).
C19_NeverLiveAndDead ==
    (called = {"IsLive", "IsDead"} /\ threshold >= 0) =>
        /\ ~(isLive /\ isDead)
        /\ (threshold = 0) => (isDead <=> ~isLive)

C19_Witness ==
    /\ called = {"IsLive", "IsDead"}
    /\ threshold = 0
    /\ now = l.Expiration
    /\ isDead
    /\ ~isLive

(***************************************************************************)
(* Specification SpecGate: a store for one node's record that uses Compare *)
(* as its gate. Writers propose records of the node in any order; an       *)
(* incoming record replaces the stored one only if the stored one compares *)
(* as older, and is rejected otherwise.                                    *)
(***************************************************************************)
\* The records writers propose for the node: any Epoch, Expiration and Draining.
NodeRecords ==
    {r \in ValidLiveness : r.NodeID = MaxNodeID /\ Active(r.Membership)}

\* The gate: the incoming record is newer than the stored one.
GateAccepts(cur, inc) == Compare(cur, inc) < 0

InitGate ==
    /\ pc = "run"
    /\ store \in NodeRecords
    /\ accepted = <<store>>
    /\ IdleValidate
    /\ IdleUpdater
    /\ IdleCompare
    /\ IdleLive
    /\ IdleConverge
    /\ IdleMap
    /\ IdleString

Propose(rec) ==
    /\ Len(accepted) < MaxAccepted
    /\ IF GateAccepts(store, rec)
       THEN /\ store' = rec
            /\ accepted' = Append(accepted, rec)
       ELSE UNCHANGED <<store, accepted>>
    /\ UNCHANGED <<pc, validateVars, updaterVars, compareVars, liveVars, convergeVars,
                   mapVars, stringVars>>

NextGate == \E rec \in NodeRecords : Propose(rec)

SpecGate == InitGate /\ [][NextGate]_vars

(***************************************************************************)
(* Claims about the gated store, under SpecGate.                           *)
(***************************************************************************)
\* Record a is older than record b: a lower Epoch, or the same Epoch and a strictly
\* earlier Expiration.
Older(a, b) ==
    \/ a.Epoch < b.Epoch
    \/ /\ a.Epoch = b.Epoch
       /\ Earlier(a.Expiration, b.Expiration.WallTime, b.Expiration.Logical)

\* C11: under any interleaving of writers proposing arbitrary records, the sequence
\* of records a Compare-gated store accepts for the node is non-decreasing: the
\* stored record is the last one accepted, and no accepted record is older than one
\* accepted before it.
C11_AcceptedNeverRegresses ==
    /\ store = accepted[Len(accepted)]
    /\ \A i \in 1..Len(accepted) : \A j \in i..Len(accepted) :
          ~Older(accepted[j], accepted[i])

C11_Witness ==
    /\ Len(accepted) = 3
    /\ accepted[1].Epoch = accepted[2].Epoch
    /\ accepted[2].Epoch < accepted[3].Epoch
    /\ Earlier(accepted[3].Expiration, accepted[1].Expiration.WallTime,
               accepted[1].Expiration.Logical)

(***************************************************************************)
(* Specification SpecConverge: two Compare-gated stores for one node. Both *)
(* start from the node's first record; the same set of competing records   *)
(* is delivered to each store, in any order.                               *)
(***************************************************************************)
Stores == {"s1", "s2"}

\* The node's first record: epoch 0, not draining, Active.
FirstRecord == [EmptyLiveness EXCEPT !.NodeID = MaxNodeID]

\* The competing records: any Epoch, wall time of Expiration and Draining.
CompetingRecords == {r \in NodeRecords : r.Expiration.Logical = 0}

InitConverge ==
    /\ pc = "run"
    /\ pool \in {p \in SUBSET CompetingRecords : Cardinality(p) \in 1..MaxCompeting}
    /\ pending = [s \in Stores |-> pool]
    /\ held = [s \in Stores |-> FirstRecord]
    /\ IdleValidate
    /\ IdleUpdater
    /\ IdleCompare
    /\ IdleLive
    /\ IdleGate
    /\ IdleMap
    /\ IdleString

Deliver(s, rec) ==
    /\ rec \in pending[s]
    /\ pending' = [pending EXCEPT ![s] = @ \ {rec}]
    /\ held' = [held EXCEPT ![s] = IF GateAccepts(@, rec) THEN rec ELSE @]
    /\ UNCHANGED <<pc, pool, validateVars, updaterVars, compareVars, liveVars, gateVars,
                   mapVars, stringVars>>

NextConverge == \E s \in Stores : \E rec \in pool : Deliver(s, rec)

SpecConverge == InitConverge /\ [][NextConverge]_vars

(***************************************************************************)
(* Claims about the replicated stores, under SpecConverge.                 *)
(***************************************************************************)
AllDelivered == \A s \in Stores : pending[s] = {}

\* Two distinct records among the first record and the competing ones that agree on
\* Epoch and Expiration.
SomeTie ==
    \E a \in pool \cup {FirstRecord} : \E b \in pool \cup {FirstRecord} :
        a # b /\ a.Epoch = b.Epoch /\ a.Expiration = b.Expiration

\* C12, as claimed: once every competing record has been delivered to every store,
\* all stores hold the same record.
C12_AsClaimed == AllDelivered => \A s \in Stores : \A t \in Stores : held[s] = held[t]

\* C12, amended: once every competing record has been delivered to every store, all
\* stores hold records of the same Epoch and Expiration, none of the competing
\* records is newer than them, and they hold the very same record when no two of the
\* records tie on Epoch and Expiration.
C12_ConvergeUpToTies ==
    AllDelivered =>
        \A s \in Stores : \A t \in Stores :
            /\ held[s].Epoch = held[t].Epoch
            /\ held[s].Expiration = held[t].Expiration
            /\ held[s] \in pool \cup {FirstRecord}
            /\ \A rec \in pool : ~Older(held[s], rec)
            /\ ~SomeTie => held[s] = held[t]

C12_Witness ==
    /\ AllDelivered
    /\ Cardinality(pool) = 2
    /\ held["s1"] # held["s2"]
    /\ held["s1"].Draining # held["s2"].Draining
    /\ held["s1"].Epoch = held["s2"].Epoch
    /\ held["s1"].Expiration = held["s2"].Expiration

(***************************************************************************)
(* Specification SpecRenew: a stored record l of a node, an incoming       *)
(* record o of the same node and a reference time; l.Compare(o),           *)
(* l.IsLive(now) and o.IsLive(now) are called in any order.                *)
(***************************************************************************)
InitRenew ==
    /\ pc = "run"
    /\ l \in NodeRecords
    /\ o \in NodeRecords
    /\ cmp = 0
    /\ now \in Timestamps
    /\ threshold = 0
    /\ called = {}
    /\ isLive = FALSE
    /\ isDead = FALSE
    /\ isLiveO = FALSE
    /\ IdleValidate
    /\ IdleUpdater
    /\ IdleGate
    /\ IdleConverge
    /\ IdleMap
    /\ IdleString

CallCompareIncoming ==
    /\ "Compare" \notin called
    /\ cmp' = Compare(l, o)
    /\ called' = called \cup {"Compare"}
    /\ UNCHANGED <<pc, validateVars, updaterVars, l, o, now, threshold, isLive, isDead,
                   isLiveO, gateVars, convergeVars, mapVars, stringVars>>

CallIsLiveStored ==
    /\ "IsLive" \notin called
    /\ isLive' = IsLive(l, now)
    /\ called' = called \cup {"IsLive"}
    /\ UNCHANGED <<pc, validateVars, updaterVars, compareVars, now, threshold, isDead,
                   isLiveO, gateVars, convergeVars, mapVars, stringVars>>

CallIsLiveIncoming ==
    /\ "IsLiveO" \notin called
    /\ isLiveO' = IsLive(o, now)
    /\ called' = called \cup {"IsLiveO"}
    /\ UNCHANGED <<pc, validateVars, updaterVars, compareVars, now, threshold, isLive,
                   isDead, gateVars, convergeVars, mapVars, stringVars>>

NextRenew == CallCompareIncoming \/ CallIsLiveStored \/ CallIsLiveIncoming

SpecRenew == InitRenew /\ [][NextRenew]_vars

(***************************************************************************)
(* Claims about Compare and IsLive together, under SpecRenew.              *)
(***************************************************************************)
AllCalled == called = {"Compare", "IsLive", "IsLiveO"}

\* C20: for records a, b with a.Epoch = b.Epoch and Compare(a,b) <= 0, IsLive on a at
\* any now implies IsLive on b at the same now: replacing a stored record by a
\* same-epoch record that Compare does not rank older never turns a live node
\* non-live.
C20_SameEpochNewerStaysLive ==
    (AllCalled /\ l.Epoch = o.Epoch /\ cmp <= 0) => (isLive => isLiveO)

C20_Witness ==
    /\ AllCalled
    /\ l.Epoch = o.Epoch
    /\ cmp = -1
    /\ isLive
    /\ isLiveO
    /\ l.Draining # o.Draining

\* C20, the case across epochs: a higher-epoch record that Compare ranks newer and
\* that expires earlier, at a time when the stored record is live and it is not.
C20_CrossEpochCase ==
    /\ AllCalled
    /\ l.Epoch < o.Epoch
    /\ cmp = -1
    /\ isLive
    /\ ~isLiveO

(***************************************************************************)
(* Specification SpecString: l.String() and l.Membership.String() on any   *)
(* record, also one whose Membership is outside the enumeration.           *)
(***************************************************************************)
InitString ==
    /\ pc = "run"
    /\ l \in Liveness
    /\ o = EmptyLiveness
    /\ cmp = 0
    /\ str = NotRendered
    /\ mstr = NotRendered
    /\ IdleValidate
    /\ IdleUpdater
    /\ IdleLive
    /\ IdleGate
    /\ IdleConverge
    /\ IdleMap

CallLivenessString ==
    /\ "Liveness.String" \notin called
    /\ str' = LivenessString(l)
    /\ called' = called \cup {"Liveness.String"}
    /\ UNCHANGED <<pc, validateVars, updaterVars, compareVars, now, threshold, isLive,
                   isDead, isLiveO, gateVars, convergeVars, mapVars, mstr>>

CallMembershipStatusString ==
    /\ "MembershipStatus.String" \notin called
    /\ mstr' = MembershipStatusStringCall(l.Membership)
    /\ called' = called \cup {"MembershipStatus.String"}
    /\ UNCHANGED <<pc, validateVars, updaterVars, compareVars, now, threshold, isLive,
                   isDead, isLiveO, gateVars, convergeVars, mapVars, str>>

NextString == CallLivenessString \/ CallMembershipStatusString

SpecString == InitString /\ [][NextString]_vars

(***************************************************************************)
(* Claims about rendering, under SpecString.                               *)
(***************************************************************************)
\* C17: rendering an unrecognized membership status aborts: for every record whose
\* Membership is outside {Active, Decommissioning, Decommissioned}, Liveness.String
\* and MembershipStatus.String on the value panic, whether or not Draining is set.
C17_AsClaimed ==
    l.Membership \notin ValidStatuses =>
        /\ "Liveness.String" \in called => str.panicked
        /\ "MembershipStatus.String" \in called => mstr.panicked

\* What does hold of the code: MembershipStatus.String panics on every unrecognized
\* value, and Liveness.String panics on one exactly when Draining is set.
C17_PanicsOnlyWhenDraining ==
    l.Membership \notin ValidStatuses =>
        /\ "Liveness.String" \in called => (str.panicked <=> l.Draining)
        /\ "MembershipStatus.String" \in called => mstr.panicked

(***************************************************************************)
(* Claims about statuses outside the enumeration, under SpecValidate.      *)
(***************************************************************************)
\* C18: ValidateTransition never accepts a transition that involves a status
\* outside the enumeration: whenever old.Membership or newStatus is not one of
\* Active, Decommissioning, Decommissioned, the call does not return (true, nil).
C18_AsClaimed ==
    (pc = "done" /\ (old.Membership \notin ValidStatuses \/ newStatus \notin ValidStatuses))
        => ret # Returned(TRUE, NoError)

\* What does hold of the code: with a status outside the enumeration the call returns
\* (true, nil) unless the old record is empty, the two statuses are equal, or the old
\* status is the unrecognized one and the new one is Active or Decommissioned (where
\* formatting the rejection panics).
C18_AcceptedOutsideEnumeration ==
    (pc = "done" /\ old # EmptyLiveness /\ old.Membership # newStatus
       /\ (old.Membership \notin ValidStatuses \/ newStatus \notin ValidStatuses)) =>
        /\ (newStatus \notin ValidStatuses \/ Decommissioning(newStatus))
              => ret = Returned(TRUE, NoError)
        /\ (Active(newStatus) \/ Decommissioned(newStatus)) => ret = Panicked

(***************************************************************************)
(* Specification SpecSnapshot: BuildIsLiveMap over the records of the      *)
(* known nodes and one reference time, run twice. A build visits the nodes *)
(* in any order and stores one IsLiveMapEntry per node.                    *)
(***************************************************************************)
Builds == {"first", "second"}

\* The records a node n may have in the snapshot's input: any wall time of Expiration
\* and any Draining.
SnapshotRecords(n) ==
    [NodeID : {n}, Epoch : {0},
     Expiration : [WallTime : 0..MaxWallTime, Logical : {0}],
     Draining : BOOLEAN, Membership : {MembershipStatus_ACTIVE}]

SnapshotInputs ==
    UNION {{f \in [nodes -> UNION {SnapshotRecords(n) : n \in nodes}] :
                \A n \in nodes : f[n].NodeID = n} :
              nodes \in SUBSET NodeIDs}

IsLiveMapEntry(rec, live) == [Liveness |-> rec, IsLive |-> live]

InitSnapshot ==
    /\ pc = "run"
    /\ input \in SnapshotInputs
    /\ todo = [b \in Builds |-> DOMAIN input]
    /\ liveMap = [b \in Builds |-> <<>>]
    /\ now \in Timestamps
    /\ threshold = 0
    /\ called = {}
    /\ isLive = FALSE
    /\ isDead = FALSE
    /\ isLiveO = FALSE
    /\ IdleValidate
    /\ IdleUpdater
    /\ IdleCompare
    /\ IdleGate
    /\ IdleConverge
    /\ IdleString

BuildStep(b, n) ==
    /\ n \in todo[b]
    /\ todo' = [todo EXCEPT ![b] = @ \ {n}]
    /\ liveMap' =
          [liveMap EXCEPT ![b] =
              [m \in (DOMAIN @) \cup {n} |->
                  IF m = n
                  THEN IsLiveMapEntry(input[n], IsLive(input[n], now))
                  ELSE @[m]]]
    /\ UNCHANGED <<pc, validateVars, updaterVars, compareVars, liveVars, gateVars,
                   convergeVars, stringVars, input>>

NextSnapshot == \E b \in Builds : \E n \in NodeIDs : BuildStep(b, n)

SpecSnapshot == InitSnapshot /\ [][NextSnapshot]_vars

(***************************************************************************)
(* Claims about the snapshot, under SpecSnapshot.                          *)
(***************************************************************************)
Built(b) == todo[b] = {}

====
